---- MODULE Spec2Model ----
(***************************************************************************)
(* Model of opsdroid/matchers.py: the match_* decorators that register     *)
(* skills on the running opsdroid instance, and the aiohttp wrapper that   *)
(* match_webhook binds to the web server's router.                         *)
(*                                                                         *)
(* Python values are encoded as follows.  An optional value is a set:      *)
(* {} is None and {v} is v.  A str whose content is inspected (regex,      *)
(* crontab) is a sequence of tokens.  A float in [0, 1] is an integer      *)
(* number of hundredths (0.6 is 60).  A function object is its name.       *)
(***************************************************************************)
EXTENDS Integers, Sequences, FiniteSets, TLC

\* ---------------------------------------------------------------- bounds
MaxSkills == 2          \* decorator applications explored per run
MaxCalls == 2           \* inbound webhook calls explored per run
MaxWarnings == 2        \* calls of the deprecated aliases explored per run

\* ---------------------------------------------------------------- inputs
None == {}
Some(v) == {v}
Optional(S) == {None} \cup {Some(v) : v \in S}

Funcs == {"f", "g"}
Configs == {[name |-> "demo"], [name |-> "other"]}
Regexes == {<<"^", "hello", "$">>, <<"(", "hello">>}
ScoreFactors == Optional({0, 30, 150})
Crontabs == {<<"*/5", "*", "*", "*", "*">>, <<"*/5", "*">>}
Timezones == Optional({"Europe/London"})
Intents == {"greet"}
Webhooks == {"ping"}

REGEX_SCORE_FACTOR == 60

VARIABLES
    opsdroid,               \* TRUE iff get_opsdroid() returns an instance
    current_import_config,  \* opsdroid.loader.current_import_config
    skills,                 \* opsdroid.skills
    routes,                 \* opsdroid.web_server.web_app.router, in add_post order
    stats,                  \* opsdroid.stats
    warnings,               \* records emitted through _LOGGER.warning
    decorator,              \* the matcher closure returned by the last match_* call
    ret,                    \* the value returned by the last matcher(func) call
    calls,                  \* history: every matcher(func) call made so far
    invocations             \* the wrapper coroutines created by inbound POSTs

vars == <<opsdroid, current_import_config, skills, routes, stats, warnings,
          decorator, ret, calls, invocations>>

\* ------------------------------------------------------- skill records
\* `score_factor or REGEX_SCORE_FACTOR`: None and 0 are falsy.
score_factor_or_default(score_factor) ==
    IF score_factor = None \/ score_factor = Some(0)
    THEN REGEX_SCORE_FACTOR
    ELSE CHOOSE v \in score_factor : TRUE

regex_skill(regex, case_sensitive, score_factor, func, config) ==
    [regex |-> [expression |-> regex,
                case_sensitive |-> case_sensitive,
                score_factor |-> score_factor_or_default(score_factor)],
     skill |-> func, config |-> config]

apiai_action_skill_own_key(action, func, config) ==
    [apiai_action |-> action, skill |-> func, config |-> config]

apiai_action_skill(action, func, config) ==
    [dialogflow_action |-> action, skill |-> func, config |-> config]

apiai_intent_skill(intent, func, config) ==
    [dialogflow_intent |-> intent, skill |-> func, config |-> config]

dialogflow_action_skill(action, func, config) ==
    [dialogflow_action |-> action, skill |-> func, config |-> config]

dialogflow_intent_skill(intent, func, config) ==
    [dialogflow_intent |-> intent, skill |-> func, config |-> config]

luisai_intent_skill(intent, func, config) ==
    [luisai_intent |-> intent, skill |-> func, config |-> config]

rasanlu_skill(intent, func, config) ==
    [rasanlu_intent |-> intent, skill |-> func, config |-> config]

recastai_skill(intent, func, config) ==
    [recastai_intent |-> intent, skill |-> func, config |-> config]

witai_skill(intent, func, config) ==
    [witai_intent |-> intent, skill |-> func, config |-> config]

crontab_skill(crontab, timezone, func, config) ==
    [crontab |-> crontab, skill |-> func, config |-> config,
     timezone |-> timezone]

webhook_skill(webhook, func, config) ==
    [webhook |-> webhook, skill |-> func, config |-> config]

always_skill(func, config) ==
    [always |-> TRUE, skill |-> func, config |-> config]

skills_insert_first(list, entry) == <<entry>> \o list

\* opsdroid.skills.append(entry)
skills_append(list, entry) == Append(list, entry)

\* ------------------------------------------------------------- initial
Init ==
    /\ opsdroid \in BOOLEAN
    /\ current_import_config \in Configs
    /\ skills = <<>>
    /\ routes = <<>>
    /\ stats = [webhooks_called |-> 0]
    /\ warnings = <<>>
    /\ decorator = [kind |-> "none"]
    /\ ret = None
    /\ calls = <<>>
    /\ invocations = <<>>

\* The loader moves on to the next module: current_import_config changes.
loader_import(config) ==
    /\ config # current_import_config
    /\ current_import_config' = config
    /\ UNCHANGED <<opsdroid, skills, routes, stats, warnings, decorator, ret,
                   calls, invocations>>

\* Common tail of every matcher(func): `if opsdroid: ... append(entry)`,
\* `return func`; `calls` records the application.
register(kind, args, entry, func) ==
    /\ Len(calls) < MaxSkills
    /\ skills' = IF opsdroid THEN skills_append(skills, entry) ELSE skills
    /\ calls' = Append(calls, [kind |-> kind, args |-> args, func |-> func,
                               config |-> current_import_config,
                               opsdroid |-> opsdroid])
    /\ UNCHANGED <<opsdroid, current_import_config, stats, warnings,
                   decorator, invocations>>

returns_decorator(closure) ==
    /\ decorator' = closure
    /\ UNCHANGED <<opsdroid, current_import_config, skills, routes, stats,
                   ret, calls, invocations>>

\* ------------------------------------------------------------ match_regex
match_regex(regex, case_sensitive, score_factor) ==
    /\ returns_decorator([kind |-> "regex", regex |-> regex,
                          case_sensitive |-> case_sensitive,
                          score_factor |-> score_factor])
    /\ UNCHANGED warnings

match_regex_matcher(func) ==
    /\ decorator.kind = "regex"
    /\ register("regex",
                [regex |-> decorator.regex,
                 case_sensitive |-> decorator.case_sensitive,
                 score_factor |-> decorator.score_factor],
                regex_skill(decorator.regex, decorator.case_sensitive,
                            decorator.score_factor, func,
                            current_import_config),
                func)
    /\ ret' = Some(func)
    /\ UNCHANGED routes

\* ----------------------------------------------------- match_apiai_action
\* The warning is logged by the body of match_apiai_action itself, after the
\* closure is defined and before it is returned.
match_apiai_action(action) ==
    /\ Len(warnings) < MaxWarnings
    /\ warnings' = Append(warnings, "match_apiai_action")
    /\ returns_decorator([kind |-> "apiai_action", action |-> action])

match_apiai_action_matcher(func) ==
    /\ decorator.kind = "apiai_action"
    /\ register("apiai_action", [action |-> decorator.action],
                apiai_action_skill(decorator.action, func, current_import_config),
                func)
    /\ ret' = Some(func)
    /\ UNCHANGED routes

\* ----------------------------------------------------- match_apiai_intent
\* The warning is logged by the body of match_apiai_intent itself, after the
\* closure is defined and before it is returned.
match_apiai_intent(intent) ==
    /\ Len(warnings) < MaxWarnings
    /\ warnings' = Append(warnings, "match_apiai_intent")
    /\ returns_decorator([kind |-> "apiai_intent", intent |-> intent])

match_apiai_intent_matcher(func) ==
    /\ decorator.kind = "apiai_intent"
    /\ register("apiai_intent", [intent |-> decorator.intent],
                apiai_intent_skill(decorator.intent, func, current_import_config),
                func)
    /\ ret' = Some(func)
    /\ UNCHANGED routes

\* ----------------------------------------------------- match_dialogflow_action
match_dialogflow_action(action) ==
    /\ returns_decorator([kind |-> "dialogflow_action", action |-> action])
    /\ UNCHANGED warnings

match_dialogflow_action_matcher(func) ==
    /\ decorator.kind = "dialogflow_action"
    /\ register("dialogflow_action", [action |-> decorator.action],
                dialogflow_action_skill(decorator.action, func, current_import_config),
                func)
    /\ ret' = Some(func)
    /\ UNCHANGED routes

\* ----------------------------------------------------- match_dialogflow_intent
match_dialogflow_intent(intent) ==
    /\ returns_decorator([kind |-> "dialogflow_intent", intent |-> intent])
    /\ UNCHANGED warnings

match_dialogflow_intent_matcher(func) ==
    /\ decorator.kind = "dialogflow_intent"
    /\ register("dialogflow_intent", [intent |-> decorator.intent],
                dialogflow_intent_skill(decorator.intent, func, current_import_config),
                func)
    /\ ret' = Some(func)
    /\ UNCHANGED routes

\* ----------------------------------------------------- match_luisai_intent
match_luisai_intent(intent) ==
    /\ returns_decorator([kind |-> "luisai_intent", intent |-> intent])
    /\ UNCHANGED warnings

match_luisai_intent_matcher(func) ==
    /\ decorator.kind = "luisai_intent"
    /\ register("luisai_intent", [intent |-> decorator.intent],
                luisai_intent_skill(decorator.intent, func, current_import_config),
                func)
    /\ ret' = Some(func)
    /\ UNCHANGED routes

\* ----------------------------------------------------- match_rasanlu
match_rasanlu(intent) ==
    /\ returns_decorator([kind |-> "rasanlu", intent |-> intent])
    /\ UNCHANGED warnings

match_rasanlu_matcher(func) ==
    /\ decorator.kind = "rasanlu"
    /\ register("rasanlu", [intent |-> decorator.intent],
                rasanlu_skill(decorator.intent, func, current_import_config),
                func)
    /\ ret' = Some(func)
    /\ UNCHANGED routes

\* ----------------------------------------------------- match_recastai
match_recastai(intent) ==
    /\ returns_decorator([kind |-> "recastai", intent |-> intent])
    /\ UNCHANGED warnings

match_recastai_matcher(func) ==
    /\ decorator.kind = "recastai"
    /\ register("recastai", [intent |-> decorator.intent],
                recastai_skill(decorator.intent, func, current_import_config),
                func)
    /\ ret' = Some(func)
    /\ UNCHANGED routes

\* ----------------------------------------------------- match_witai
match_witai(intent) ==
    /\ returns_decorator([kind |-> "witai", intent |-> intent])
    /\ UNCHANGED warnings

match_witai_matcher(func) ==
    /\ decorator.kind = "witai"
    /\ register("witai", [intent |-> decorator.intent],
                witai_skill(decorator.intent, func, current_import_config),
                func)
    /\ ret' = Some(func)
    /\ UNCHANGED routes

\* ---------------------------------------------------------- match_crontab
match_crontab(crontab, timezone) ==
    /\ returns_decorator([kind |-> "crontab", crontab |-> crontab,
                          timezone |-> timezone])
    /\ UNCHANGED warnings

match_crontab_matcher(func) ==
    /\ decorator.kind = "crontab"
    /\ register("crontab",
                [crontab |-> decorator.crontab,
                 timezone |-> decorator.timezone],
                crontab_skill(decorator.crontab, decorator.timezone, func,
                              current_import_config),
                func)
    /\ ret' = Some(func)
    /\ UNCHANGED routes

\* ---------------------------------------------------------- match_webhook
\* "/skill/{}/{}".format(config["name"], webhook)
route_path(name, webhook) == "/skill/" \o name \o "/" \o webhook

\* "/skill/{}/{}/".format(config["name"], webhook)
route_path_slash(name, webhook) == "/skill/" \o name \o "/" \o webhook \o "/"

\* The closure `wrapper`: webhook and func are free variables, opsdroid and
\* config are bound as default arguments when the closure is created.
wrapper_closure(webhook, func, config) ==
    [webhook |-> webhook, func |-> func, config |-> config]

add_routes_same_path(router, webhook, func, config) ==
    router \o <<[path |-> "/skill/" \o config.name \o "/" \o webhook,
                 handler |-> [webhook |-> webhook, func |-> func,
                              config |-> config]],
                [path |-> "/skill/" \o config.name \o "/" \o webhook,
                 handler |-> [webhook |-> webhook, func |-> func,
                              config |-> config]]>>

\* The two router.add_post calls, in order.
add_routes(router, webhook, func, config) ==
    router \o <<[path |-> route_path(config.name, webhook),
                 handler |-> wrapper_closure(webhook, func, config)],
                [path |-> route_path_slash(config.name, webhook),
                 handler |-> wrapper_closure(webhook, func, config)]>>

webhook_matcher_return_wrapper(func) == Some("wrapper")

\* `return func` of match_webhook.matcher.
webhook_matcher_return(func) == Some(func)

match_webhook(webhook) ==
    /\ returns_decorator([kind |-> "webhook", webhook |-> webhook])
    /\ UNCHANGED warnings

match_webhook_matcher(func) ==
    /\ decorator.kind = "webhook"
    /\ register("webhook", [webhook |-> decorator.webhook],
                webhook_skill(decorator.webhook, func, current_import_config),
                func)
    /\ routes' = IF opsdroid
                 THEN add_routes(routes, decorator.webhook, func,
                                 current_import_config)
                 ELSE routes
    /\ ret' = webhook_matcher_return(func)

\* ----------------------------------------------------------- match_always
\* match_always(func=None): `if callable(func): return matcher(func)`,
\* otherwise `return matcher`.
match_always(func) ==
    IF func # None
    THEN /\ register("always", [direct |-> TRUE],
                     always_skill(CHOOSE f \in func : TRUE,
                                  current_import_config),
                     CHOOSE f \in func : TRUE)
         /\ ret' = func
         /\ UNCHANGED routes
    ELSE /\ returns_decorator([kind |-> "always"])
         /\ UNCHANGED warnings

match_always_matcher(func) ==
    /\ decorator.kind = "always"
    /\ register("always", [direct |-> FALSE],
                always_skill(func, current_import_config), func)
    /\ ret' = Some(func)
    /\ UNCHANGED routes

\* ------------------------------------------------- the webhook wrapper
\* An inbound POST resolved by the router to its i-th binding: aiohttp
\* calls the bound handler, which creates the wrapper coroutine.
post(i) ==
    /\ i \in 1..Len(routes)
    /\ Len(invocations) < MaxCalls
    /\ invocations' = Append(invocations,
           [path |-> routes[i].path, handler |-> routes[i].handler,
            pc |-> "scheduled", entered_at |-> None, handler_calls |-> 0,
            handler_saw |-> None, handler_outcome |-> "none",
            response |-> None])
    /\ UNCHANGED <<opsdroid, current_import_config, skills, routes, stats,
                   warnings, decorator, ret, calls>>

webhooks_called_not_incremented(n) == n

\* opsdroid.stats["webhooks_called"] = opsdroid.stats["webhooks_called"] + 1
webhooks_called_increment(n) == n + 1

\* The wrapper runs from its first line to `await func(...)`: nothing in
\* between suspends.  The handler is entered with the opsdroid instance, so
\* it sees the counter as the wrapper left it.
wrapper(k) ==
    /\ k \in 1..Len(invocations)
    /\ invocations[k].pc = "scheduled"
    /\ stats' = [stats EXCEPT !.webhooks_called = webhooks_called_increment(@)]
    /\ invocations' = [invocations EXCEPT ![k] =
           [@ EXCEPT !.pc = "awaiting",
                     !.entered_at = Some(stats.webhooks_called),
                     !.handler_calls = @ + 1,
                     !.handler_saw = Some(stats'.webhooks_called)]]
    /\ UNCHANGED <<opsdroid, current_import_config, skills, routes, warnings,
                   decorator, ret, calls>>

\* Web.build_response(200, {"called_skill": webhook})
wrapper_response(webhook) ==
    [status |-> 200, body |-> [called_skill |-> webhook]]

\* The awaited handler returns: the wrapper resumes and returns the response.
handler_returns(k) ==
    /\ k \in 1..Len(invocations)
    /\ invocations[k].pc = "awaiting"
    /\ invocations' = [invocations EXCEPT ![k] =
           [@ EXCEPT !.pc = "returned",
                     !.handler_outcome = "returned",
                     !.response =
                         Some(wrapper_response(invocations[k].handler.webhook))]]
    /\ UNCHANGED <<opsdroid, current_import_config, skills, routes, stats,
                   warnings, decorator, ret, calls>>

\* The awaited handler raises: there is no try around the await, so the
\* exception leaves the wrapper and reaches its caller; no response is built.
handler_raises(k) ==
    /\ k \in 1..Len(invocations)
    /\ invocations[k].pc = "awaiting"
    /\ invocations' = [invocations EXCEPT ![k] =
           [@ EXCEPT !.pc = "raised", !.handler_outcome = "raised"]]
    /\ UNCHANGED <<opsdroid, current_import_config, skills, routes, stats,
                   warnings, decorator, ret, calls>>

\* --------------------------------------------------------- specifications
\* Spec: a loader importing skill modules that use the regex, crontab,
\* webhook and always decorators.
Next ==
    \/ \E config \in Configs : loader_import(config)
    \/ \E regex \in {<<"^", "hello", "$">>} : match_regex(regex, TRUE, None)
    \/ \E func \in Funcs : match_regex_matcher(func)
    \/ \E crontab \in {<<"*/5", "*", "*", "*", "*">>} :
           match_crontab(crontab, None)
    \/ \E func \in Funcs : match_crontab_matcher(func)
    \/ \E webhook \in Webhooks : match_webhook(webhook)
    \/ \E func \in Funcs : match_webhook_matcher(func)
    \/ \E func \in Optional(Funcs) : match_always(func)
    \/ \E func \in Funcs : match_always_matcher(func)

Spec == Init /\ [][Next]_vars

\* SpecRegex: match_regex and match_crontab over all their arguments.
NextRegex ==
    \/ \E regex \in Regexes, case_sensitive \in BOOLEAN,
          score_factor \in ScoreFactors :
           match_regex(regex, case_sensitive, score_factor)
    \/ \E func \in Funcs : match_regex_matcher(func)
    \/ \E crontab \in Crontabs, timezone \in Timezones :
           match_crontab(crontab, timezone)
    \/ \E func \in Funcs : match_crontab_matcher(func)

SpecRegex == Init /\ [][NextRegex]_vars

\* SpecNlu: the NLU decorators, the two deprecated aliases included.
NextNlu ==
    \/ \E action \in Intents : match_apiai_action(action)
    \/ \E func \in Funcs : match_apiai_action_matcher(func)
    \/ \E intent \in Intents : match_apiai_intent(intent)
    \/ \E func \in Funcs : match_apiai_intent_matcher(func)
    \/ \E action \in Intents : match_dialogflow_action(action)
    \/ \E func \in Funcs : match_dialogflow_action_matcher(func)
    \/ \E intent \in Intents : match_dialogflow_intent(intent)
    \/ \E func \in Funcs : match_dialogflow_intent_matcher(func)
    \/ \E intent \in Intents : match_luisai_intent(intent)
    \/ \E func \in Funcs : match_luisai_intent_matcher(func)
    \/ \E intent \in Intents : match_rasanlu(intent)
    \/ \E func \in Funcs : match_rasanlu_matcher(func)
    \/ \E intent \in Intents : match_recastai(intent)
    \/ \E func \in Funcs : match_recastai_matcher(func)
    \/ \E intent \in Intents : match_witai(intent)
    \/ \E func \in Funcs : match_witai_matcher(func)

SpecNlu == Init /\ [][NextNlu]_vars

\* SpecWebhook: the webhook skills of one module are registered and called
\* concurrently.
NextWebhook ==
    \/ \E webhook \in Webhooks : match_webhook(webhook)
    \/ \E func \in Funcs : match_webhook_matcher(func)
    \/ \E i \in 1..(2 * MaxSkills) : post(i)
    \/ \E k \in 1..MaxCalls : wrapper(k)
    \/ \E k \in 1..MaxCalls : handler_returns(k)
    \/ \E k \in 1..MaxCalls : handler_raises(k)

SpecWebhook == Init /\ [][NextWebhook]_vars

\* ------------------------------------------------------------ properties
Last(seq) == seq[Len(seq)]

Count(seq, v) == Cardinality({i \in 1..Len(seq) : seq[i] = v})

\* The matcher data of registry entry e is the data given in call c.
HoldsMatcherData(e, c) ==
    CASE c.kind = "regex" ->
             /\ "regex" \in DOMAIN e
             /\ e.regex.expression = c.args.regex
             /\ e.regex.case_sensitive = c.args.case_sensitive
      [] c.kind = "crontab" ->
             /\ "crontab" \in DOMAIN e
             /\ e.crontab = c.args.crontab
             /\ e.timezone = c.args.timezone
      [] c.kind = "webhook" ->
             /\ "webhook" \in DOMAIN e
             /\ e.webhook = c.args.webhook
      [] c.kind = "always" ->
             /\ "always" \in DOMAIN e
             /\ e.always = TRUE
      [] OTHER -> FALSE

\* C1: while an opsdroid instance exists, opsdroid.skills has exactly one
\* entry per decorator application, in application order, each holding the
\* matcher data, the handler and the import config current at that
\* application; and every step leaves the entries already in the list in
\* place, so a registration only appends.
C1_RegistryInOrder ==
    /\ [](opsdroid =>
            /\ Len(skills) = Len(calls)
            /\ \A i \in 1..Len(skills) :
                   /\ skills[i].skill = calls[i].func
                   /\ skills[i].config = calls[i].config
                   /\ HoldsMatcherData(skills[i], calls[i]))
    /\ [][/\ Len(skills') >= Len(skills)
          /\ Len(skills') <= Len(skills) + 1
          /\ SubSeq(skills', 1, Len(skills)) = skills]_vars

C1_Witness ==
    /\ opsdroid
    /\ Len(skills) = 2
    /\ "regex" \in DOMAIN skills[1]
    /\ "always" \in DOMAIN skills[2]
    /\ skills[1].skill # skills[2].skill
    /\ skills[1].config # skills[2].config

\* C2: the value returned by decorating a handler is that handler, for every
\* decorator, with or without an opsdroid instance.
C2_ReturnsHandler ==
    Len(calls) > 0 => ret = Some(Last(calls).func)

C2_Witness ==
    /\ opsdroid
    /\ Len(calls) = 2
    /\ calls[1].kind = "always" /\ calls[1].args.direct
    /\ calls[2].kind = "webhook"
    /\ ret = Some(calls[2].func)

\* C3: a webhook skill p registered under config name N has POST /skill/N/p
\* and POST /skill/N/p/ bound to one and the same wrapper, and a call on
\* either route whose handler has completed has invoked the handler exactly
\* once, raised the counter by exactly 1 and returned 200 with the body
\* {"called_skill": p}.
C3_WebhookCall ==
    /\ \A i \in 1..Len(skills) :
           "webhook" \in DOMAIN skills[i] =>
               \E a, b \in 1..Len(routes) :
                   /\ routes[a].path = "/skill/" \o skills[i].config.name
                                           \o "/" \o skills[i].webhook
                   /\ routes[b].path = "/skill/" \o skills[i].config.name
                                           \o "/" \o skills[i].webhook \o "/"
                   /\ routes[a].handler = routes[b].handler
                   /\ routes[a].handler.func = skills[i].skill
    /\ \A k \in 1..Len(invocations) :
           invocations[k].pc = "returned" =>
               \E p \in Webhooks, c \in Configs :
                   /\ invocations[k].path \in
                          {"/skill/" \o c.name \o "/" \o p,
                           "/skill/" \o c.name \o "/" \o p \o "/"}
                   /\ invocations[k].handler_calls = 1
                   /\ \E n \in 0..MaxCalls :
                          /\ invocations[k].entered_at = Some(n)
                          /\ invocations[k].handler_saw = Some(n + 1)
                   /\ invocations[k].response =
                          Some([status |-> 200, body |-> [called_skill |-> p]])

C3_Witness ==
    \E k \in 1..Len(invocations) :
        /\ invocations[k].pc = "returned"
        /\ invocations[k].path = "/skill/other/ping/"

\* C4: once every webhook call has finished, webhooks_called has grown by
\* the number of calls whose handler completed; failed calls are not counted.
C4_CountsSuccessesOnly ==
    (\A k \in 1..Len(invocations) :
         invocations[k].pc \in {"returned", "raised"})
    => stats.webhooks_called =
           Cardinality({k \in 1..Len(invocations) :
                            invocations[k].handler_outcome = "returned"})

\* C5: a failure raised by the handler of a webhook skill is never
\* propagated to the caller of the webhook invocation path.
C5_FailureNotPropagated ==
    \A k \in 1..Len(invocations) :
        invocations[k].handler_outcome = "raised"
        => invocations[k].pc # "raised"

\* re.compile accepts the expression: its parentheses are balanced.
RECURSIVE Balanced(_, _)
Balanced(tokens, depth) ==
    IF tokens = <<>> THEN depth = 0
    ELSE IF Head(tokens) = "(" THEN Balanced(Tail(tokens), depth + 1)
    ELSE IF Head(tokens) = ")"
         THEN depth > 0 /\ Balanced(Tail(tokens), depth - 1)
    ELSE Balanced(Tail(tokens), depth)

\* A cron expression has the five fields minute, hour, day, month, weekday.
WellFormedCrontab(fields) == Len(fields) = 5

\* C6: a registration with an invalid regex or a malformed cron expression
\* is rejected: no such skill is ever in the registry.
C6_InvalidRejected ==
    \A i \in 1..Len(skills) :
        /\ "regex" \in DOMAIN skills[i]
               => Balanced(skills[i].regex.expression, 0)
        /\ "crontab" \in DOMAIN skills[i]
               => WellFormedCrontab(skills[i].crontab)

\* C7: every regex entry carries a score_factor in (0, 1]: the supplied
\* one, or the default 0.6 when none was supplied.
C7_ScoreFactorInRange ==
    opsdroid =>
        \A i \in 1..Len(skills) :
            "regex" \in DOMAIN skills[i] =>
                /\ skills[i].regex.score_factor > 0
                /\ skills[i].regex.score_factor <= 100
                /\ IF calls[i].args.score_factor = None
                   THEN skills[i].regex.score_factor = 60
                   ELSE Some(skills[i].regex.score_factor)
                            = calls[i].args.score_factor

\* C8: the deprecated aliases are synonyms: the entry an alias registers is
\* the entry its dialogflow counterpart registers for the same argument,
\* handler and config, and it returns the same value (the handler).
C8_AliasesAreSynonyms ==
    opsdroid =>
        /\ Len(skills) = Len(calls)
        /\ \A i \in 1..Len(skills) :
               /\ calls[i].kind = "apiai_action" =>
                      skills[i] = [dialogflow_action |-> calls[i].args.action,
                                   skill |-> calls[i].func,
                                   config |-> calls[i].config]
               /\ calls[i].kind = "apiai_intent" =>
                      skills[i] = [dialogflow_intent |-> calls[i].args.intent,
                                   skill |-> calls[i].func,
                                   config |-> calls[i].config]
        /\ (Len(calls) > 0
              /\ Last(calls).kind \in {"apiai_action", "apiai_intent"})
           => ret = Some(Last(calls).func)

C8_Witness ==
    /\ opsdroid
    /\ Len(skills) = 2
    /\ calls[1].kind = "apiai_action"
    /\ calls[2].kind = "apiai_intent"

\* C9: the deprecation warning of each alias is logged once in total, however
\* often the alias is called.
C9_WarnedOnce ==
    \A alias \in {"match_apiai_action", "match_apiai_intent"} :
        Count(warnings, alias) <= 1

\* C10: under any interleaving of webhook invocations, webhooks_called is
\* the number of wrapper invocations that have started, and each of them
\* raised the counter before its handler began.
C10_NoLostUpdate ==
    /\ stats.webhooks_called =
           Cardinality({k \in 1..Len(invocations) :
                            invocations[k].pc # "scheduled"})
    /\ \A k \in 1..Len(invocations) :
           invocations[k].pc # "scheduled" =>
               \E n \in 0..MaxCalls :
                   /\ invocations[k].entered_at = Some(n)
                   /\ invocations[k].handler_saw = Some(n + 1)

C10_Witness ==
    /\ Len(invocations) = 2
    /\ invocations[1].pc = "awaiting"
    /\ invocations[2].pc = "awaiting"
    /\ stats.webhooks_called = 2

====
